---- MODULE Spec2Model ----
(***************************************************************************)
(* Model of services/semantic_search.py (SemanticSearch), services/rag.py  *)
(* (RAG), services/security.py (require_token) and services/ingest/main.py *)
(* (POST /ingest/pdf).                                                     *)
(*                                                                         *)
(* A text is a sequence of one-character strings.  Python indices are      *)
(* 0-based and are kept 0-based in every result; TLA+ sequences are        *)
(* 1-based, so documents[i + 1] is Python's documents[i].                  *)
(*                                                                         *)
(* Arithmetic.  The library computes in finite precision (IEEE doubles,    *)
(* 52 fraction bits, round to nearest).  The model keeps the same          *)
(* operations and the same rounding points (the logarithm, the square      *)
(* root, the division by the norm, the dot product) in binary fixed point  *)
(* with 10 fraction bits: 1.0 is the integer One and a score is a number   *)
(* of units of 1/One.  All intermediate values stay below 2^31.            *)
(*                                                                         *)
(* SemanticSearch.vectorizer is TfidfVectorizer() with its defaults:       *)
(* lowercase=True, token_pattern (?u)\b\w\w+\b, no stop words, unigrams,  *)
(* smooth_idf=True, sublinear_tf=False, norm='l2'.                         *)
(***************************************************************************)
EXTENDS Integers, Sequences, FiniteSets, TLC

\* ---------------------------------------------------------------- bounds
MaxDocs == 3
MaxTopK == 3

\* ------------------------------------------------------------ input pools
Empty == <<>>
SkyText == <<"T", "h", "e", " ", "s", "k", "y", " ", "i", "s", " ", "b", "l", "u", "e", ".">>
SkyTwice == SkyText \o <<" ">> \o SkyText
CatsText == <<"C", "a", "t", "s", " ", "a", "r", "e", " ", "m", "a", "m", "m", "a", "l", "s", ".">>
ASkyText == <<"A", " ", "s", "k", "y">>
ColorQuestion == <<"c", "o", "l", "o", "r", " ", "o", "f", " ", "s", "k", "y">>

DocPool == {Empty, SkyText, SkyTwice, ASkyText}
QueryPool == DocPool \cup {CatsText, ColorQuestion}
TopKs == (-1)..MaxTopK
\* what the caller writes into its list after construction
CallerDocs == {ASkyText}

RECURSIVE SeqsUpTo(_, _)
SeqsUpTo(S, n) ==
    IF n = 0 THEN {<<>>}
    ELSE LET shorter == SeqsUpTo(S, n - 1)
         IN  shorter \cup {Append(s, x) : s \in {t \in shorter : Len(t) = n - 1}, x \in S}

DocLists == SeqsUpTo(DocPool, MaxDocs)

\* ------------------------------------------------------------- arithmetic
\* 1.0 in the fixed-point arithmetic
One == 1024

\* round-to-nearest quotient of non-negative a by positive b
RoundDiv(a, b) == (2 * a + b) \div (2 * b)

RECURSIVE FloorSqrt(_, _, _)
FloorSqrt(s, lo, hi) ==
    IF lo >= hi THEN lo
    ELSE LET mid == (lo + hi + 1) \div 2
         IN  IF mid * mid <= s THEN FloorSqrt(s, mid, hi) ELSE FloorSqrt(s, lo, mid - 1)

\* r or r + 1, whichever is nearer to the square root of s, r its floor
NearestRoot(s, r) == IF s - r * r > r THEN r + 1 ELSE r

\* square root rounded to nearest (s < 2^30)
Sqrt(s) == NearestRoot(s, FloorSqrt(s, 0, 32767))

\* natural logarithm of 1..8 in units of 1/One, rounded to nearest
LogTable == <<0, 710, 1125, 1420, 1648, 1835, 1993, 2129>>
Log(k) == LogTable[k]

RECURSIVE Sum(_, _)
Sum(f, S) ==
    IF S = {} THEN 0
    ELSE LET x == CHOOSE y \in S : TRUE
         IN  f[x] + Sum(f, S \ {x})

\* the dot product of two rows over the same vocabulary
Dot(a, b) == Sum([t \in DOMAIN a |-> a[t] * b[t]], DOMAIN a)

Range(s) == {s[i] : i \in 1..Len(s)}

\* ----------------------------------------------- TfidfVectorizer: analyzer
UpperToLower ==
    ("A" :> "a") @@ ("B" :> "b") @@ ("C" :> "c") @@ ("D" :> "d") @@ ("E" :> "e") @@
    ("F" :> "f") @@ ("G" :> "g") @@ ("H" :> "h") @@ ("I" :> "i") @@ ("J" :> "j") @@
    ("K" :> "k") @@ ("L" :> "l") @@ ("M" :> "m") @@ ("N" :> "n") @@ ("O" :> "o") @@
    ("P" :> "p") @@ ("Q" :> "q") @@ ("R" :> "r") @@ ("S" :> "s") @@ ("T" :> "t") @@
    ("U" :> "u") @@ ("V" :> "v") @@ ("W" :> "w") @@ ("X" :> "x") @@ ("Y" :> "y") @@
    ("Z" :> "z")

\* str.lower() on one character (lowercase=True)
Lower(c) == IF c \in DOMAIN UpperToLower THEN UpperToLower[c] ELSE c

\* the characters \w matches, after lowercasing
WordChars ==
    {"a", "b", "c", "d", "e", "f", "g", "h", "i", "j", "k", "l", "m", "n", "o", "p",
     "q", "r", "s", "t", "u", "v", "w", "x", "y", "z",
     "0", "1", "2", "3", "4", "5", "6", "7", "8", "9", "_"}

\* token_pattern (?u)\b\w\w+\b keeps a maximal run of word characters
\* only when it has at least two characters
Flush(acc, cur) == IF Len(cur) >= 2 THEN Append(acc, cur) ELSE acc

\* one pass over text from position i; cur is the run of word characters
\* being read, acc the tokens found so far
RECURSIVE Scan(_, _, _, _)
Scan(text, i, cur, acc) ==
    IF i > Len(text) THEN Flush(acc, cur)
    ELSE LET c == Lower(text[i])
         IN  IF c \in WordChars
             THEN Scan(text, i + 1, Append(cur, c), acc)
             ELSE Scan(text, i + 1, <<>>, Flush(acc, cur))

\* build_analyzer(): lowercase, then tokenize; no stop words, unigrams
Tokenize(text) == Scan(text, 1, <<>>, <<>>)

\* the analyzer applied to every document
Analyze(docs) == [i \in 1..Len(docs) |-> Tokenize(docs[i])]

\* term frequency: occurrences of term among the tokens
Count(term, tokens) == Cardinality({i \in 1..Len(tokens) : tokens[i] = term})

\* ---------------------------------------------------- TfidfVectorizer: fit
\* vocabulary_: every term of every tokenized document
Vocabulary(tokenized) == UNION {Range(tokenized[i]) : i \in 1..Len(tokenized)}

\* number of documents the term occurs in
DocFreq(term, tokenized) ==
    Cardinality({i \in 1..Len(tokenized) : term \in Range(tokenized[i])})

\* smooth_idf=True: idf = ln((1 + n) / (1 + df)) + 1
Idf(n, df) == One + Log(1 + n) - Log(1 + df)

\* every entry of row v divided by norm
Divide(v, norm) == [t \in DOMAIN v |-> RoundDiv(v[t] * One, norm)]

\* row v, whose sum of squares is s, divided by its Euclidean norm; an
\* all-zero row is left alone
Scaled(v, s) == IF s = 0 THEN v ELSE Divide(v, Sqrt(s))

\* norm='l2'
L2Normalize(v) == Scaled(v, Dot(v, v))

\* the fitted state over n tokenized documents: vocabulary_ and idf_
FitTokenized(n, tokenized) ==
    [vocabulary |-> Vocabulary(tokenized),
     idf |-> [t \in Vocabulary(tokenized) |-> Idf(n, DocFreq(t, tokenized))]]

\* TfidfVectorizer.fit
Fit(docs) == FitTokenized(Len(docs), Analyze(docs))

\* term counts over the fitted vocabulary (terms outside it are dropped),
\* times idf
Weighted(vz, tokens) == [t \in vz.vocabulary |-> Count(t, tokens) * vz.idf[t]]

\* TfidfVectorizer.transform on one text
transform(vz, text) == L2Normalize(Weighted(vz, Tokenize(text)))

\* faulty variant: only an empty list is rejected
EmptyListOnly(docs) == docs = <<>>

\* faulty variant: an empty list is accepted
EmptyVocabularyOfSomeDocs(docs) == docs # <<>> /\ Vocabulary(Analyze(docs)) = {}

\* fit raises ValueError("empty vocabulary; ...") when no document has a token
EmptyVocabulary(docs) == Vocabulary(Analyze(docs)) = {}

\* ------------------------------------------------------ cosine_similarity
\* normalize(X), normalize(Y), then the dot product of every pair of rows;
\* .flatten() gives one score per document
Similarities(qn, rows) ==
    [i \in 1..Len(rows) |-> RoundDiv(Dot(qn, L2Normalize(rows[i])), One)]

cosine_similarity(q, rows) == Similarities(L2Normalize(q), rows)

\* faulty variant: enumerate(sims, 1)
EnumerateFromOne(sims) == [i \in 1..Len(sims) |-> <<i, sims[i]>>]

\* enumerate(sims): (index, score) pairs, index from 0
enumerate(sims) == [i \in 1..Len(sims) |-> <<i - 1, sims[i]>>]

\* faulty variant: a tie goes in front of the entries it ties with
InsertTiesFirst(ranked, pair) ==
    LET pos == Cardinality({j \in 1..Len(ranked) : ranked[j][2] > pair[2]})
    IN  SubSeq(ranked, 1, pos) \o <<pair>> \o SubSeq(ranked, pos + 1, Len(ranked))

\* faulty variant: ascending order (reverse=True forgotten)
InsertAscending(ranked, pair) ==
    LET pos == Cardinality({j \in 1..Len(ranked) : ranked[j][2] <= pair[2]})
    IN  SubSeq(ranked, 1, pos) \o <<pair>> \o SubSeq(ranked, pos + 1, Len(ranked))

\* one insertion of a stable descending sort: pair goes behind every entry
\* whose score is greater or equal
Insert(ranked, pair) ==
    LET pos == Cardinality({j \in 1..Len(ranked) : ranked[j][2] >= pair[2]})
    IN  SubSeq(ranked, 1, pos) \o <<pair>> \o SubSeq(ranked, pos + 1, Len(ranked))

\* sorted(pairs, key=lambda x: x[1], reverse=True): the sort is stable and
\* reverse=True keeps the original order of equal keys
RECURSIVE sorted(_)
sorted(pairs) ==
    IF pairs = <<>> THEN <<>>
    ELSE Insert(sorted(SubSeq(pairs, 1, Len(pairs) - 1)), pairs[Len(pairs)])

\* faulty variant: seq[:k + 1]
SliceOneMore(seq, k) ==
    LET n == Len(seq)
        stop == IF k >= 0 THEN (IF k + 1 < n THEN k + 1 ELSE n)
                ELSE (IF n + k > 0 THEN n + k ELSE 0)
    IN  SubSeq(seq, 1, stop)

\* Python's seq[:k] for any integer k
Slice(seq, k) ==
    LET n == Len(seq)
        stop == IF k >= 0 THEN (IF k < n THEN k ELSE n)
                ELSE (IF n + k > 0 THEN n + k ELSE 0)
    IN  SubSeq(seq, 1, stop)

\* SemanticSearch.query
QueryResult(vz, rows, text, top_k) ==
    Slice(sorted(enumerate(cosine_similarity(transform(vz, text), rows))), top_k)

\* faulty variant: fit_transform([text]) in place of transform([text])
VectorizerAfterRefit(vz, text) == Fit(<<text>>)

\* what transform([text]) leaves of the fitted vocabulary_ and idf_
VectorizerAfterTransform(vz, text) == vz

\* faulty variant: self.docs[0]
ContextFirst(docs, best_idx) == docs[1]

\* context = self.docs[best_idx]
Context(docs, best_idx) == docs[best_idx + 1]

\* vectorizer.fit_transform(documents): one row per document
TransformAll(vz, docs) == [i \in 1..Len(docs) |-> transform(vz, docs[i])]

fit_transform(docs) == TransformAll(Fit(docs), docs)

\* --------------------------------------------------- security.py, main.py
\* os.getenv("API_TOKEN", "secret")
API_TOKEN == "secret"
\* no X-API-Key header: auto_error=False hands None to the dependency
NoKey == "None"
ApiKeys == {NoKey, API_TOKEN, "wrong"}
Urls == {"http://a/1.pdf"}
Chunks == 3

\* require_token: raises HTTPException(401) unless the key is API_TOKEN;
\* the value is the status the request then gets from this dependency
require_token(api_key) == IF api_key # API_TOKEN THEN 401 ELSE 200

\* the dependencies declared on @app.post('/ingest/pdf', ...): none
IngestPdfDependencies == {}

NoBody == [ingested |-> "", chunks |-> 0]

\* the route: declared dependencies run first, then the handler body
ingest_pdf(api_key, url) ==
    IF \E dep \in IngestPdfDependencies : dep = "require_token" /\ require_token(api_key) = 401
    THEN [status |-> 401, body |-> NoBody]
    ELSE [status |-> 200, body |-> [ingested |-> url, chunks |-> Chunks]]

\* ------------------------------------------------------------------ state
VARIABLES
    documents,   \* the list object passed in; RAG.docs and SemanticSearch.documents alias it
    vectorizer,  \* SemanticSearch.vectorizer: fitted vocabulary_ and idf_
    matrix,      \* SemanticSearch.matrix: one tf-idf row per indexed document
    built,       \* TRUE once RAG(documents) has returned an object
    indexed,     \* history: the document sequence fit_transform was run on
    last         \* the most recent call and its outcome

vars == <<documents, vectorizer, matrix, built, indexed, last>>

Unfitted == [vocabulary |-> {}, idf |-> <<>>]

NoCall ==
    [op |-> "none", text |-> <<>>, top_k |-> 0, result |-> <<>>, answer |-> <<>>,
     error |-> "none", api_key |-> NoKey, status |-> 0, body |-> NoBody]

Init ==
    /\ documents = <<>>
    /\ vectorizer = Unfitted
    /\ matrix = <<>>
    /\ built = FALSE
    /\ indexed = <<>>
    /\ last = NoCall

\* RAG.__init__ -> SemanticSearch.__init__ -> __post_init__: fit_transform
\* raises ValueError on an empty vocabulary and no object is returned
RAG_init(docs) ==
    /\ ~built
    /\ documents' = docs
    /\ IF EmptyVocabulary(docs)
       THEN /\ last' = [NoCall EXCEPT !.op = "construct", !.error = "ValueError"]
            /\ UNCHANGED <<vectorizer, matrix, built, indexed>>
       ELSE /\ vectorizer' = Fit(docs)
            /\ matrix' = fit_transform(docs)
            /\ built' = TRUE
            /\ indexed' = docs
            /\ last' = [NoCall EXCEPT !.op = "construct"]

\* SemanticSearch.query(text, top_k)
query(text, top_k) ==
    /\ built
    /\ last' = [NoCall EXCEPT !.op = "query", !.text = text, !.top_k = top_k,
                              !.result = QueryResult(vectorizer, matrix, text, top_k)]
    /\ vectorizer' = VectorizerAfterTransform(vectorizer, text)
    /\ UNCHANGED <<documents, matrix, built, indexed>>

\* RAG.ask(question): query(question, top_k=1)[0], then self.docs[best_idx]
ask(question) ==
    /\ built
    /\ \E found \in {QueryResult(vectorizer, matrix, question, 1)} :
           last' = IF found = <<>> \/ found[1][1] >= Len(documents)
                   THEN [NoCall EXCEPT !.op = "ask", !.text = question, !.top_k = 1,
                                       !.result = found, !.error = "IndexError"]
                   ELSE [NoCall EXCEPT !.op = "ask", !.text = question, !.top_k = 1,
                                       !.result = found,
                                       !.answer = Context(documents, found[1][1])]
    /\ vectorizer' = VectorizerAfterTransform(vectorizer, question)
    /\ UNCHANGED <<documents, matrix, built, indexed>>

\* POST /ingest/pdf with header X-API-Key (or without it) and a valid PDFIn
\* payload {"url": url}
IngestPdf(api_key, url) ==
    /\ \E response \in {ingest_pdf(api_key, url)} :
           last' = [NoCall EXCEPT !.op = "ingest_pdf", !.api_key = api_key,
                                  !.status = response.status, !.body = response.body]
    /\ UNCHANGED <<documents, vectorizer, matrix, built, indexed>>

\* The caller changes the list object it passed to RAG(documents): neither
\* constructor copies it.  One write after construction is modelled.
CallerAppend(doc) ==
    /\ built
    /\ documents = indexed
    /\ documents' = Append(documents, doc)
    /\ last' = [NoCall EXCEPT !.op = "caller_write"]
    /\ UNCHANGED <<vectorizer, matrix, built, indexed>>

CallerSetItem(i, doc) ==
    /\ built
    /\ documents = indexed
    /\ i \in 1..Len(documents)
    /\ documents' = [documents EXCEPT ![i] = doc]
    /\ last' = [NoCall EXCEPT !.op = "caller_write"]
    /\ UNCHANGED <<vectorizer, matrix, built, indexed>>

CallerPop ==
    /\ built
    /\ documents = indexed
    /\ documents' = SubSeq(documents, 1, Len(documents) - 1)
    /\ last' = [NoCall EXCEPT !.op = "caller_write"]
    /\ UNCHANGED <<vectorizer, matrix, built, indexed>>

Next ==
    \/ \E docs \in DocLists : RAG_init(docs)
    \/ \E text \in QueryPool, top_k \in TopKs : query(text, top_k)
    \/ \E question \in QueryPool : ask(question)
    \/ \E api_key \in ApiKeys, url \in Urls : IngestPdf(api_key, url)

Spec == Init /\ [][Next]_vars

NextAlias ==
    \/ Next
    \/ \E doc \in CallerDocs : CallerAppend(doc)
    \/ \E i \in 1..MaxDocs, doc \in CallerDocs : CallerSetItem(i, doc)
    \/ CallerPop

SpecAlias == Init /\ [][NextAlias]_vars

\* ----------------------------------------------------------------- claims

\* C1: for a non-empty document set D and top_k >= 1, query returns at most
\* min(top_k, |D|) results and every returned index i satisfies 0 <= i < |D|.
C1_AtMostTopKValidIndices ==
    (last.op = "query" /\ last.top_k >= 1) =>
        LET n == Len(indexed)
            bound == IF last.top_k < n THEN last.top_k ELSE n
        IN  /\ Len(last.result) <= bound
            /\ \A j \in 1..Len(last.result) :
                   last.result[j][1] >= 0 /\ last.result[j][1] < n

\* reached: top_k exceeds the document count and the result is clamped to it
C1_Witness ==
    /\ last.op = "query"
    /\ last.top_k > Len(indexed)
    /\ Len(indexed) >= 2
    /\ Len(last.result) = Len(indexed)

\* C2: the result of query is a stable descending ranking: of two adjacent
\* results (i, s), (j, t) either s > t, or s = t and i < j.
C2_StableDescending ==
    last.op = "query" =>
        \A j \in 1..(Len(last.result) - 1) :
            \/ last.result[j][2] > last.result[j + 1][2]
            \/ /\ last.result[j][2] = last.result[j + 1][2]
               /\ last.result[j][1] < last.result[j + 1][1]

\* reached: two documents tie on a positive score and a third scores lower
C2_Witness ==
    /\ last.op = "query"
    /\ Len(last.result) = 3
    /\ last.result[1][2] = last.result[2][2]
    /\ last.result[2][2] > last.result[3][2]
    /\ last.result[3][2] > 0
    /\ last.result[3][1] = 0

\* C3: ask(question) returns exactly the text D[i], i the index of the first
\* result of query(question, top_k=1) on the index built over D.
C3_AskReturnsBestDocument ==
    last.op = "ask" =>
        \A best \in {QueryResult(Fit(indexed), fit_transform(indexed), last.text, 1)} :
            /\ last.error = "none"
            /\ best # <<>>
            /\ last.answer = indexed[best[1][1] + 1]

\* reached: the spec's question picks the sky document, which is not D[0]
C3_Witness ==
    /\ last.op = "ask"
    /\ last.text = ColorQuestion
    /\ last.result[1][1] = 1
    /\ last.answer = SkyText
    /\ indexed[1] # SkyText

\* C4: construction over an empty document set, or over documents none of
\* which has a token, fails with the vectorizer's ValueError (the spec's
\* InvalidInput) and leaves no index.
C4_ConstructionFailsWithoutVocabulary ==
    (last.op = "construct" /\ \A i \in 1..Len(documents) : Tokenize(documents[i]) = <<>>) =>
        /\ last.error = "ValueError"
        /\ ~built
        /\ matrix = <<>>
        /\ vectorizer = Unfitted

\* reached: construction over empty strings only has failed
C4_Witness ==
    /\ last.op = "construct"
    /\ Len(documents) = 2
    /\ documents[1] = Empty
    /\ last.error = "ValueError"
    /\ ~built

C6_CallsLeaveIndexUnchanged ==
    built =>
        \A fresh \in {[vectorizer |-> Fit(indexed), matrix |-> fit_transform(indexed)]} :
            /\ documents = indexed
            /\ vectorizer = fresh.vectorizer
            /\ matrix = fresh.matrix
            /\ last.op \in {"query", "ask"} =>
                   last.result = QueryResult(fresh.vectorizer, fresh.matrix,
                                             last.text, last.top_k)

\* reached: a call with a non-empty result has returned
C6_Witness ==
    /\ built
    /\ last.op \in {"query", "ask"}
    /\ last.text = SkyTwice
    /\ Len(last.result) >= 1
    /\ last.result[1][2] > 0

\* C7 as stated: after construction the document sequence read by query and
\* ask is the indexed one, the matrix has one row per document, and row i is
\* the vector of document i.
C7_DocumentsFixedAtConstruction ==
    built =>
        /\ documents = indexed
        /\ Len(matrix) = Len(documents)
        /\ \A i \in 1..Len(documents) : matrix[i] = transform(vectorizer, documents[i])

C9_IngestRequiresToken ==
    (last.op = "ingest_pdf" /\ last.api_key # API_TOKEN) =>
        (last.status = 401 /\ last.body = NoBody)

\* C10: when no token of the query is in the vocabulary, query does not
\* fail and returns indices 0 .. min(top_k, |D|) - 1 in order, each with
\* score 0, and ask returns D[0].
C10_ZeroQueryKeepsDocumentOrder ==
    (last.op \in {"query", "ask"} /\ last.top_k >= 1
        /\ Range(Tokenize(last.text)) \cap vectorizer.vocabulary = {}) =>
        LET n == Len(indexed)
            k == IF last.top_k < n THEN last.top_k ELSE n
        IN  /\ last.error = "none"
            /\ last.result = [j \in 1..k |-> <<j - 1, 0>>]
            /\ last.op = "ask" => last.answer = indexed[1]

\* reached: a query of out-of-vocabulary words over two or more documents
C10_Witness ==
    /\ last.op = "query"
    /\ last.text = CatsText
    /\ Len(last.result) >= 2
    /\ last.result[2] = <<1, 0>>

====
